---- MODULE Spec2Model ----
(***************************************************************************)
(* Model of src/_utility/simulations_utility.py: the histogram fixer       *)
(* fix_counts, the file averaging step post_process_split and the two      *)
(* parallel execution helpers.  Every function is an independent helper,   *)
(* so each one has its own specification over its own variables.           *)
(***************************************************************************)
EXTENDS Integers, Sequences, FiniteSets, TLC

\* ------------------------------------------------------------------ bounds
MaxQubits == 2
MaxCount == 2
NumFiles == 3
MaxSources == 4
MaxTargets == 2
MaxSplit == 3
MaxArgs == 4
MaxCpu == 5
MaxWorkers == 2

VARIABLES
    \* fix_counts
    fc_pc, counts_0, n_qubits, mirrored_counts, counts, j,
    \* post_process_split: its arguments and locals, the file system, the
    \* file system at the time of the call and the log of loads and saves
    pp_pc, source_filenames, target_filenames, split, i, target_idx, rest,
    target_array, fs, fs0, loads, saves,
    \* perform_parallel_simulation_with_multiprocessing: its arguments and
    \* locals, the pool's tasks and result queue, and what was printed
    mp_pc, args, max_workers, cpu_count, n_processes, chunksize,
    tasks, task_state, progress, executed, items, taken, chunk, reported,
    p_closed, p_joined,
    \* perform_parallel_simulation: its arguments, the objects of the caller
    \* and of the worker processes, the executor's futures and the outcome
    ps_pc, ps_args, ps_outcome, ps_max_workers, ps_cpu_count, heap, heap0,
    future_state, worker_arg, ps_executed, collected, ps_exc

fcVars == <<fc_pc, counts_0, n_qubits, mirrored_counts, counts, j>>
ppVars == <<pp_pc, source_filenames, target_filenames, split, i, target_idx,
            rest, target_array, fs, fs0, loads, saves>>
mpVars == <<mp_pc, args, max_workers, cpu_count, n_processes, chunksize,
            tasks, task_state, progress, executed, items, taken, chunk,
            reported, p_closed, p_joined>>
psVars == <<ps_pc, ps_args, ps_outcome, ps_max_workers, ps_cpu_count, heap,
            heap0, future_state, worker_arg, ps_executed, collected, ps_exc>>
vars == <<fcVars, ppVars, mpVars, psVars>>

\* ------------------------------------------------------- generic helpers
Max(a, b) == IF a >= b THEN a ELSE b
Min(a, b) == IF a <= b THEN a ELSE b

RECURSIVE Pow2(_)
Pow2(n) == IF n = 0 THEN 1 ELSE 2 * Pow2(n - 1)

\* All sequences over S of length exactly n.
Tuples(S, n) == [1..n -> S]

\* The values of the variables of a function that is not being called.
FcIdle ==
    /\ fc_pc = "idle" /\ counts_0 = <<>> /\ n_qubits = 0
    /\ mirrored_counts = <<>> /\ counts = <<>> /\ j = 0

PpIdle ==
    /\ pp_pc = "idle" /\ source_filenames = <<>> /\ target_filenames = <<>>
    /\ split = 0 /\ i = 0 /\ target_idx = 0 /\ rest = <<>>
    /\ target_array = <<0, 1>> /\ fs = <<>> /\ fs0 = <<>>
    /\ loads = <<>> /\ saves = <<>>

\* The default max_workers=None of lines 46 and 74, written 0 (which is no
\* valid number of workers).
None == 0

MpIdle ==
    /\ mp_pc = "idle" /\ args = <<>> /\ max_workers = None /\ cpu_count = 0
    /\ n_processes = 0 /\ chunksize = 0 /\ tasks = <<>> /\ task_state = <<>>
    /\ progress = <<>> /\ executed = <<>> /\ items = <<>> /\ taken = 0
    /\ chunk = <<>> /\ reported = <<>> /\ p_closed = FALSE /\ p_joined = FALSE

PsIdle ==
    /\ ps_pc = "idle" /\ ps_args = <<>> /\ ps_outcome = <<>>
    /\ ps_max_workers = None /\ ps_cpu_count = 0 /\ heap = <<>> /\ heap0 = <<>>
    /\ future_state = <<>> /\ worker_arg = <<>> /\ ps_executed = <<>>
    /\ collected = 0 /\ ps_exc = "none"

\* =========================================================================
\* fix_counts
\* =========================================================================
\* A bit string is a sequence of the characters '0' and '1', written 0 and 1.
BitStrings(n) == Tuples({0, 1}, n)

\* s[::-1]
Reverse(s) == [k \in 1..Len(s) |-> s[Len(s) + 1 - k]]

\* int(s, 2)
RECURSIVE BinToInt(_)
BinToInt(s) ==
    IF Len(s) = 0 THEN 0
    ELSE 2 * BinToInt(SubSeq(s, 1, Len(s) - 1)) + s[Len(s)]

\* format(x, 'b'): the binary digits of x without leading zeros ("0" for 0).
RECURSIVE FormatB(_)
FormatB(x) ==
    IF x < 2 THEN <<x>> ELSE Append(FormatB(x \div 2), x % 2)

\* str.zfill(n): pad with '0' on the left up to n characters, never truncate.
RECURSIVE Zfill(_, _)
Zfill(s, n) == IF Len(s) >= n THEN s ELSE Zfill(<<0>> \o s, n)

\* Python's ordering of str: lexicographic, a proper prefix is smaller.
RECURSIVE StrLess(_, _)
StrLess(s, t) ==
    IF Len(t) = 0 THEN FALSE
    ELSE IF Len(s) = 0 THEN TRUE
    ELSE IF s[1] # t[1] THEN s[1] < t[1]
    ELSE StrLess(Tail(s), Tail(t))

\* sorted(d.items()) of a dict d: the (key, value) pairs in ascending key
\* order (the keys of a dict are distinct, so the values never decide).
RECURSIVE SortedItems(_)
SortedItems(d) ==
    IF DOMAIN d = {} THEN <<>>
    ELSE LET least == CHOOSE k \in DOMAIN d :
                          \A o \in DOMAIN d \ {k} : StrLess(k, o)
             others == [k \in DOMAIN d \ {least} |-> d[k]]
         IN <<<<least, d[least]>>>> \o SortedItems(others)

\* Mirror without the reversal of the keys.
MirrorKeepsKeys(d) == d

\* {j[::-1]: counts_0[j] for j in counts_0}
Mirror(d) ==
    [k \in {Reverse(s) : s \in DOMAIN d} |->
        d[CHOOSE s \in DOMAIN d : Reverse(s) = k]]

\* list.insert(pos, x) with a 0-based position pos <= len(list)
Insert(list, pos, x) ==
    SubSeq(list, 1, pos) \o <<x>> \o SubSeq(list, pos + 1, Len(list))

\* The dicts the callers pass: a non-empty set of measured bit strings of
\* length n, each with a positive count.
CountsDicts(n) ==
    UNION {[K -> 1..MaxCount] : K \in (SUBSET BitStrings(n)) \ {{}}}

FixInit ==
    /\ PsIdle
    /\ PpIdle
    /\ MpIdle
    /\ n_qubits \in 1..MaxQubits
    /\ counts_0 \in CountsDicts(n_qubits)
    /\ fc_pc = "mirror"
    /\ mirrored_counts = <<>>
    /\ counts = <<>>
    /\ j = 0

\* line 18
FcMirror ==
    /\ fc_pc = "mirror"
    /\ mirrored_counts' = Mirror(counts_0)
    /\ fc_pc' = "sort"
    /\ UNCHANGED <<counts_0, n_qubits, counts, j>>
    /\ UNCHANGED <<ppVars, mpVars, psVars>>

\* lines 21-22
FcSort ==
    /\ fc_pc = "sort"
    /\ counts' = SortedItems(mirrored_counts)
    /\ fc_pc' = "zero"
    /\ UNCHANGED <<counts_0, n_qubits, mirrored_counts, j>>
    /\ UNCHANGED <<ppVars, mpVars, psVars>>

\* lines 25-27
FcAddZero ==
    /\ fc_pc = "zero"
    /\ IF Len(counts) = 0
       THEN /\ fc_pc' = "IndexError"
            /\ UNCHANGED counts
       ELSE /\ counts' = IF BinToInt(counts[1][1]) # 0
                         THEN Insert(counts, 0, <<Zfill(FormatB(0), n_qubits), 0>>)
                         ELSE counts
            /\ fc_pc' = "uno"
    /\ UNCHANGED <<counts_0, n_qubits, mirrored_counts, j>>
    /\ UNCHANGED <<ppVars, mpVars, psVars>>

\* lines 30-32
FcAddUno ==
    /\ fc_pc = "uno"
    /\ counts' = IF BinToInt(counts[Len(counts)][1]) # Pow2(n_qubits) - 1
                 THEN Insert(counts, Len(counts),
                             <<Zfill(FormatB(Pow2(n_qubits) - 1), n_qubits), 0>>)
                 ELSE counts
    /\ fc_pc' = "loop"
    /\ UNCHANGED <<counts_0, n_qubits, mirrored_counts, j>>
    /\ UNCHANGED <<ppVars, mpVars, psVars>>

\* The gap test of line 36 on the 0-based positions jj and jj+1.
GapAfter(list, jj) ==
    BinToInt(list[jj + 2][1]) # BinToInt(list[jj + 1][1]) + 1

\* lines 34-41: one iteration of the loop over range(2**n_qubits - 1)
FcLoop ==
    /\ fc_pc = "loop"
    /\ j < Pow2(n_qubits) - 1
    /\ IF j + 2 > Len(counts)
       THEN /\ fc_pc' = "IndexError"
            /\ UNCHANGED <<counts, j>>
       ELSE /\ counts' = IF GapAfter(counts, j)
                         THEN Insert(counts, j + 1,
                                     <<Zfill(FormatB(BinToInt(counts[j + 1][1]) + 1),
                                             n_qubits), 0>>)
                         ELSE counts
            /\ j' = j + 1
            /\ UNCHANGED fc_pc
    /\ UNCHANGED <<counts_0, n_qubits, mirrored_counts>>
    /\ UNCHANGED <<ppVars, mpVars, psVars>>

\* line 43
FcReturn ==
    /\ fc_pc = "loop"
    /\ j >= Pow2(n_qubits) - 1
    /\ fc_pc' = "done"
    /\ UNCHANGED <<counts_0, n_qubits, mirrored_counts, counts, j>>
    /\ UNCHANGED <<ppVars, mpVars, psVars>>

FixNext == FcMirror \/ FcSort \/ FcAddZero \/ FcAddUno \/ FcLoop \/ FcReturn

FixSpec == FixInit /\ [][FixNext]_vars

\* C1: fix_counts returns exactly 2^n_qubits pairs; the pair at position jj
\* is (jj in binary zero-padded to n_qubits characters, the count of the
\* reversed string in counts_0, or 0 when that string is no key), and the
\* call never ends in an IndexError.
ExpectedCounts ==
    [p \in 1..Pow2(n_qubits) |->
        LET b == CHOOSE s \in BitStrings(n_qubits) : BinToInt(s) = p - 1
        IN <<b, IF Reverse(b) \in DOMAIN counts_0 THEN counts_0[Reverse(b)] ELSE 0>>]

C1_FixCountsComplete ==
    /\ fc_pc # "IndexError"
    /\ fc_pc = "done" =>
        /\ Len(counts) = Pow2(n_qubits)
        /\ counts = ExpectedCounts
        /\ \A p \in 1..(Len(counts) - 1) : StrLess(counts[p][1], counts[p + 1][1])

\* A finished call that had to mirror an asymmetric key and fill a gap
\* strictly inside the list.
C1_Witness ==
    /\ fc_pc = "done"
    /\ \E s \in DOMAIN counts_0 : Reverse(s) # s
    /\ \E p \in 2..(Len(counts) - 1) : Reverse(counts[p][1]) \notin DOMAIN counts_0
    /\ Cardinality(DOMAIN counts_0) >= 2

\* =========================================================================
\* post_process_split
\* =========================================================================
\* File names.  A file holds one number (a one-element array) or is absent.
Files == 1..NumFiles
NoFile == "NoFile"

\* Array elements are floats; they are kept exact as reduced fractions
\* <<numerator, denominator>> with a positive denominator.
RECURSIVE Gcd(_, _)
Gcd(a, b) == IF b = 0 THEN a ELSE Gcd(b, a % b)

Abs(a) == IF a < 0 THEN -a ELSE a

Rat(n, d) == LET g == Gcd(Abs(n), d) IN <<n \div g, d \div g>>

\* target_array += other
RatAdd(x, y) == Rat(x[1] * y[2] + y[1] * x[2], x[2] * y[2])

\* target_array / split
RatDivInt(x, k) == Rat(x[1], x[2] * k)

\* What the file f holds when post_process_split is called.
InitialContent(f) == Rat(Pow2(f), 1)

\* os.path.isfile(f)
IsFile(f) == fs[f] # NoFile

\* list[lo:hi] for 0-based lo, hi >= 0: clamped to the list, never an error
Slice(list, lo, hi) ==
    LET h == IF hi > Len(list) THEN Len(list) ELSE hi
    IN IF lo >= h THEN <<>> ELSE SubSeq(list, lo + 1, h)

\* File names are interchangeable, so the two lists are taken up to renaming:
\* over source_filenames followed by target_filenames the names appear in the
\* order of their first use.  FirstUseLists(n) are all such lists of length n.
RECURSIVE MaxOf(_)
MaxOf(names) ==
    IF names = <<>> THEN 0 ELSE Max(names[Len(names)], MaxOf(SubSeq(names, 1, Len(names) - 1)))

RECURSIVE FirstUseLists(_)
FirstUseLists(n) ==
    IF n = 0 THEN {<<>>}
    ELSE UNION {{Append(names, f) : f \in 1..Min(NumFiles, MaxOf(names) + 1)} :
                   names \in FirstUseLists(n - 1)}

FileLists == UNION {FirstUseLists(n) : n \in 0..(MaxSources + MaxTargets)}

SplitInit ==
    /\ PsIdle
    /\ FcIdle
    /\ MpIdle
    /\ \E names \in FileLists : \E n \in 0..Len(names) :
           /\ n <= MaxSources
           /\ Len(names) - n <= MaxTargets
           /\ source_filenames = SubSeq(names, 1, n)
           /\ target_filenames = SubSeq(names, n + 1, Len(names))
    /\ split \in 0..MaxSplit
    /\ \E present \in SUBSET Files :
           fs0 = [f \in Files |-> IF f \in present THEN InitialContent(f) ELSE NoFile]
    /\ fs = fs0
    /\ pp_pc = "assert_len"
    /\ i = 0
    /\ target_idx = 0
    /\ rest = <<>>
    /\ target_array = <<0, 1>>
    /\ loads = <<>>
    /\ saves = <<>>

ppArgs == <<source_filenames, target_filenames, split, fs0>>

\* line 208: not all(os.path.isfile(f) for f in target_filenames)
TargetsAssertion == ~ (\A k \in 1..Len(target_filenames) : IsFile(target_filenames[k]))

\* lines 205-206
PpAssertLen ==
    /\ pp_pc = "assert_len"
    /\ pp_pc' = IF split * Len(target_filenames) = Len(source_filenames)
                THEN "assert_sources" ELSE "AssertionError"
    /\ UNCHANGED <<ppArgs, i, target_idx, rest, target_array, fs, loads, saves>>
    /\ UNCHANGED <<fcVars, mpVars, psVars>>

\* line 207
PpAssertSources ==
    /\ pp_pc = "assert_sources"
    /\ pp_pc' = IF \A k \in 1..Len(source_filenames) : IsFile(source_filenames[k])
                THEN "assert_targets" ELSE "AssertionError"
    /\ UNCHANGED <<ppArgs, i, target_idx, rest, target_array, fs, loads, saves>>
    /\ UNCHANGED <<fcVars, mpVars, psVars>>

\* line 208
PpAssertTargets ==
    /\ pp_pc = "assert_targets"
    /\ pp_pc' = IF TargetsAssertion THEN "assert_split" ELSE "AssertionError"
    /\ UNCHANGED <<ppArgs, i, target_idx, rest, target_array, fs, loads, saves>>
    /\ UNCHANGED <<fcVars, mpVars, psVars>>

\* lines 209-211
PpAssertSplit ==
    /\ pp_pc = "assert_split"
    /\ pp_pc' = IF split > 1 THEN "for_target" ELSE "AssertionError"
    /\ i' = 0
    /\ UNCHANGED <<ppArgs, target_idx, rest, target_array, fs, loads, saves>>
    /\ UNCHANGED <<fcVars, mpVars, psVars>>

\* InnerSlice with an end that is one too small.
InnerSliceShort(list, ii, sp) == Slice(list, ii + 1, ii + sp - 1)

\* The slice the inner loop of line 214 runs over.
InnerSlice(list, ii, sp) == Slice(list, ii + 1, ii + sp)

\* The start of the next group, line 218.
NextGroup(ii, sp) == ii + sp

\* lines 212-213: the next target_file and the load of source_filenames[i]
PpLoadFirst ==
    /\ pp_pc = "for_target"
    /\ target_idx < Len(target_filenames)
    /\ IF i >= Len(source_filenames)
       THEN /\ pp_pc' = "IndexError"
            /\ UNCHANGED <<rest, target_array, loads>>
       ELSE IF ~ IsFile(source_filenames[i + 1])
       THEN /\ pp_pc' = "OSError"
            /\ UNCHANGED <<rest, target_array, loads>>
       ELSE /\ target_array' = fs[source_filenames[i + 1]]
            /\ loads' = Append(loads, <<source_filenames[i + 1],
                                        fs[source_filenames[i + 1]]>>)
            /\ rest' = InnerSlice(source_filenames, i, split)
            /\ pp_pc' = "for_source"
    /\ UNCHANGED <<ppArgs, i, target_idx, fs, saves>>
    /\ UNCHANGED <<fcVars, mpVars, psVars>>

\* lines 214-215: one iteration of the inner loop
PpLoadNext ==
    /\ pp_pc = "for_source"
    /\ rest # <<>>
    /\ IF ~ IsFile(Head(rest))
       THEN /\ pp_pc' = "OSError"
            /\ UNCHANGED <<rest, target_array, loads>>
       ELSE /\ target_array' = RatAdd(target_array, fs[Head(rest)])
            /\ loads' = Append(loads, <<Head(rest), fs[Head(rest)]>>)
            /\ rest' = Tail(rest)
            /\ UNCHANGED pp_pc
    /\ UNCHANGED <<ppArgs, i, target_idx, fs, saves>>
    /\ UNCHANGED <<fcVars, mpVars, psVars>>

\* lines 216-218: the mean, the save and the step to the next group
PpSave ==
    /\ pp_pc = "for_source"
    /\ rest = <<>>
    /\ LET target_file == target_filenames[target_idx + 1]
           mean_array == RatDivInt(target_array, split)
       IN /\ fs' = [fs EXCEPT ![target_file] = mean_array]
          /\ saves' = Append(saves, <<target_file, mean_array>>)
    /\ i' = NextGroup(i, split)
    /\ target_idx' = target_idx + 1
    /\ pp_pc' = "for_target"
    /\ UNCHANGED <<ppArgs, rest, target_array, loads>>
    /\ UNCHANGED <<fcVars, mpVars, psVars>>

\* line 219
PpReturn ==
    /\ pp_pc = "for_target"
    /\ target_idx >= Len(target_filenames)
    /\ pp_pc' = "done"
    /\ UNCHANGED <<ppArgs, i, target_idx, rest, target_array, fs, loads, saves>>
    /\ UNCHANGED <<fcVars, mpVars, psVars>>

SplitNext ==
    \/ PpAssertLen \/ PpAssertSources \/ PpAssertTargets \/ PpAssertSplit
    \/ PpLoadFirst \/ PpLoadNext \/ PpSave \/ PpReturn

SplitSpec == SplitInit /\ [][SplitNext]_vars

PpAsserted == pp_pc \in {"for_target", "for_source", "done", "IndexError", "OSError"}

RECURSIVE RatSum(_)
RatSum(seq) == IF seq = <<>> THEN <<0, 1>> ELSE RatAdd(Head(seq), RatSum(Tail(seq)))

\* C2: once the four assertions have passed the call runs to its return
\* without an error, and then the k-th save, for every position k of
\* target_filenames, writes target_filenames[k] with the sum divided by split
\* of what was loaded from the split consecutive entries
\* source_filenames[k*split .. (k+1)*split-1]; every entry of source_filenames
\* is loaded exactly once, in order, and every entry of target_filenames is
\* saved exactly once.  When no target names a source and no target is named
\* twice, the targets end up holding the means of the sources' contents at
\* the time of the call.
C2_SplitAverages ==
    PpAsserted =>
      /\ pp_pc \notin {"IndexError", "OSError"}
      /\ pp_pc = "done" =>
          /\ Len(loads) = Len(source_filenames)
          /\ \A m \in 1..Len(loads) : loads[m][1] = source_filenames[m]
          /\ Len(saves) = Len(target_filenames)
          /\ \A k \in 1..Len(saves) :
                /\ saves[k][1] = target_filenames[k]
                /\ saves[k][2] =
                     RatDivInt(RatSum([m \in 1..split |->
                                          loads[(k - 1) * split + m][2]]), split)
          /\ ( /\ \A k \in 1..Len(target_filenames), m \in 1..Len(source_filenames) :
                     target_filenames[k] # source_filenames[m]
               /\ \A k, l \in 1..Len(target_filenames) :
                     k # l => target_filenames[k] # target_filenames[l] )
             => \A k \in 1..Len(target_filenames) :
                   fs[target_filenames[k]] =
                     RatDivInt(RatSum([m \in 1..split |->
                         fs0[source_filenames[(k - 1) * split + m]]]), split)

\* A finished call that averaged two groups of two different files each.
C2_Witness ==
    /\ pp_pc = "done"
    /\ Len(target_filenames) = 2
    /\ split = 2
    /\ source_filenames[1] # source_filenames[2]
    /\ target_filenames[1] # target_filenames[2]
    /\ saves[1][2] # saves[2][2]

\* C3: a call with at least one already existing target file fails with an
\* AssertionError and saves nothing.
C3_ExistingTargetRejected ==
    (\E k \in 1..Len(target_filenames) : fs0[target_filenames[k]] # NoFile)
        => (~ PpAsserted /\ saves = <<>>)

\* =========================================================================
\* perform_parallel_simulation_with_multiprocessing
\* =========================================================================
\* An element of args is identified by its position; all that matters of it
\* is whether simulation returns a (time, nqubit) pair for it or raises.
ArgLists == UNION {Tuples({"ok", "raise"}, n) : n \in 0..MaxArgs}

WorkerChoices == {None} \cup (1..MaxWorkers)

\* line 57: max(int(0.8 * cpu_count), 2); the product is truncated to an
\* integer (for these magnitudes the float product is exact enough).
NProcesses(cpus) == Max((8 * cpus) \div 10, 2)

\* Chunksize without the extra element for a remainder.
ChunksizeRoundedDown(simulations, procs) == Max(1, simulations \div procs)

\* line 61
Chunksize(simulations, procs) ==
    Max(1, (simulations \div procs) + (IF simulations % procs > 0 THEN 1 ELSE 0))

\* Pool._get_tasks as used by imap_unordered: the positions 1..n cut into
\* consecutive batches of size batch (the last one may be shorter).  With
\* a chunksize of 1 every element is a task of its own.
RECURSIVE GetTasks(_, _, _)
GetTasks(from, n, batch) ==
    IF from > n THEN <<>>
    ELSE LET to == IF from + batch - 1 > n THEN n ELSE from + batch - 1
         IN <<[k \in 1..(to - from + 1) |-> from + k - 1]>> \o GetTasks(to + 1, n, batch)

MpInit ==
    /\ PsIdle
    /\ FcIdle
    /\ PpIdle
    /\ args \in ArgLists
    /\ max_workers \in WorkerChoices
    /\ cpu_count \in 1..MaxCpu
    /\ mp_pc = "configure"
    /\ n_processes = 0
    /\ chunksize = 0
    /\ tasks = <<>>
    /\ task_state = <<>>
    /\ progress = <<>>
    /\ executed = [a \in 1..Len(args) |-> 0]
    /\ items = <<>>
    /\ taken = 0
    /\ chunk = <<>>
    /\ reported = <<>>
    /\ p_closed = FALSE
    /\ p_joined = FALSE

mpInputs == <<args, max_workers, cpu_count>>
mpPool == <<tasks, task_state, progress, executed, items>>

\* lines 54-62
MpConfigure ==
    /\ mp_pc = "configure"
    /\ n_processes' = NProcesses(cpu_count)
    /\ chunksize' = Chunksize(Len(args), NProcesses(cpu_count))
    /\ mp_pc' = "pool"
    /\ UNCHANGED <<mpInputs, mpPool, taken, chunk, reported, p_closed, p_joined>>
    /\ UNCHANGED <<fcVars, ppVars, psVars>>

\* lines 65-66: the pool is created and imap_unordered queues the tasks
MpImap ==
    /\ mp_pc = "pool"
    /\ tasks' = GetTasks(1, Len(args), chunksize)
    /\ task_state' = [t \in 1..Len(tasks') |-> "queued"]
    /\ progress' = [t \in 1..Len(tasks') |-> 0]
    /\ mp_pc' = "for"
    /\ UNCHANGED <<mpInputs, n_processes, chunksize, executed, items, taken,
                   chunk, reported, p_closed, p_joined>>
    /\ UNCHANGED <<fcVars, ppVars, psVars>>

Running == {t \in 1..Len(tasks) : task_state[t] = "running"}

\* A free worker process takes the oldest queued task.
WorkerGet(t) ==
    /\ task_state[t] = "queued"
    /\ \A u \in 1..(t - 1) : task_state[u] # "queued"
    /\ Cardinality(Running) < n_processes
    /\ task_state' = [task_state EXCEPT ![t] = "running"]
    /\ UNCHANGED <<mp_pc, mpInputs, n_processes, chunksize, tasks, progress,
                   executed, items, taken, chunk, reported, p_closed, p_joined>>
    /\ UNCHANGED <<fcVars, ppVars, psVars>>

\* The worker calls simulation on the next element of its task.  A raise
\* ends the task at once: its failure is put on the result queue and the
\* rest of the batch is not simulated.
WorkerSimulate(t) ==
    /\ task_state[t] = "running"
    /\ progress[t] < Len(tasks[t])
    /\ LET a == tasks[t][progress[t] + 1]
       IN /\ executed' = [executed EXCEPT ![a] = @ + 1]
          /\ IF args[a] = "raise"
             THEN /\ items' = Append(items, <<FALSE, t>>)
                  /\ task_state' = [task_state EXCEPT ![t] = "finished"]
                  /\ UNCHANGED progress
             ELSE /\ progress' = [progress EXCEPT ![t] = @ + 1]
                  /\ UNCHANGED <<items, task_state>>
    /\ UNCHANGED <<mp_pc, mpInputs, n_processes, chunksize, tasks, taken,
                   chunk, reported, p_closed, p_joined>>
    /\ UNCHANGED <<fcVars, ppVars, psVars>>

\* The worker has simulated its whole task and puts the results on the
\* result queue.
WorkerPut(t) ==
    /\ task_state[t] = "running"
    /\ progress[t] = Len(tasks[t])
    /\ items' = Append(items, <<TRUE, t>>)
    /\ task_state' = [task_state EXCEPT ![t] = "finished"]
    /\ UNCHANGED <<mp_pc, mpInputs, n_processes, chunksize, tasks, progress,
                   executed, taken, chunk, reported, p_closed, p_joined>>
    /\ UNCHANGED <<fcVars, ppVars, psVars>>

\* line 66: the iterator hands out the results of the next finished task
MpNextChunk ==
    /\ mp_pc = "for"
    /\ chunk = <<>>
    /\ items # <<>>
    /\ Head(items)[1]
    /\ chunk' = tasks[Head(items)[2]]
    /\ items' = Tail(items)
    /\ taken' = taken + 1
    /\ UNCHANGED <<mp_pc, mpInputs, n_processes, chunksize, tasks, task_state,
                   progress, executed, reported, p_closed, p_joined>>
    /\ UNCHANGED <<fcVars, ppVars, psVars>>

\* MpRaise with the failure of the task swallowed: the loop goes on.
MpRaiseSwallowed ==
    /\ mp_pc = "for"
    /\ chunk = <<>>
    /\ items # <<>>
    /\ ~ Head(items)[1]
    /\ items' = Tail(items)
    /\ taken' = taken + 1
    /\ UNCHANGED <<mp_pc, mpInputs, n_processes, chunksize, tasks, task_state,
                   progress, executed, chunk, reported, p_closed, p_joined>>
    /\ UNCHANGED <<fcVars, ppVars, psVars>>

\* line 66: the next finished task failed; the iterator raises its exception
\* in the parent, which leaves the function
MpRaise ==
    /\ mp_pc = "for"
    /\ chunk = <<>>
    /\ items # <<>>
    /\ ~ Head(items)[1]
    /\ items' = Tail(items)
    /\ taken' = taken + 1
    /\ mp_pc' = "raised"
    /\ UNCHANGED <<mpInputs, n_processes, chunksize, tasks, task_state,
                   progress, executed, chunk, reported, p_closed, p_joined>>
    /\ UNCHANGED <<fcVars, ppVars, psVars>>

\* line 67: the loop body prints the line of one result
MpPrint ==
    /\ mp_pc = "for"
    /\ chunk # <<>>
    /\ reported' = Append(reported, Head(chunk))
    /\ chunk' = Tail(chunk)
    /\ UNCHANGED <<mp_pc, mpInputs, n_processes, chunksize, mpPool, taken,
                   p_closed, p_joined>>
    /\ UNCHANGED <<fcVars, ppVars, psVars>>

\* line 66: every task's result has been handed out, the loop ends
MpLoopEnd ==
    /\ mp_pc = "for"
    /\ chunk = <<>>
    /\ taken = Len(tasks)
    /\ mp_pc' = "close"
    /\ UNCHANGED <<mpInputs, n_processes, chunksize, mpPool, taken, chunk,
                   reported, p_closed, p_joined>>
    /\ UNCHANGED <<fcVars, ppVars, psVars>>

\* line 70
MpClose ==
    /\ mp_pc = "close"
    /\ p_closed' = TRUE
    /\ mp_pc' = "join"
    /\ UNCHANGED <<mpInputs, n_processes, chunksize, mpPool, taken, chunk,
                   reported, p_joined>>
    /\ UNCHANGED <<fcVars, ppVars, psVars>>

\* line 71: join returns when the workers have left, which they do once the
\* pool is closed and no task remains
MpJoin ==
    /\ mp_pc = "join"
    /\ \A t \in 1..Len(tasks) : task_state[t] = "finished"
    /\ p_joined' = TRUE
    /\ mp_pc' = "returned"
    /\ UNCHANGED <<mpInputs, n_processes, chunksize, mpPool, taken, chunk,
                   reported, p_closed>>
    /\ UNCHANGED <<fcVars, ppVars, psVars>>

MpNext ==
    \/ MpConfigure \/ MpImap
    \/ \E t \in 1..Len(tasks) : WorkerGet(t) \/ WorkerSimulate(t) \/ WorkerPut(t)
    \/ MpNextChunk \/ MpRaise \/ MpPrint \/ MpLoopEnd \/ MpClose \/ MpJoin

MpSpec == MpInit /\ [][MpNext]_vars

\* The parent and the worker processes all keep running.
MpFairSpec == MpSpec /\ WF_vars(MpNext)

SomeRaises == \E a \in 1..Len(args) : args[a] = "raise"

\* C4: the 'Simulated ...' lines are reported in the order of args.
C4_ReportedInArgsOrder ==
    \A a, b \in 1..Len(reported) : a < b => reported[a] < reported[b]

C6_Outcome ==
    /\ SomeRaises => (mp_pc \notin {"close", "join", "returned"}
                        /\ ~ p_closed /\ ~ p_joined)
    /\ mp_pc = "raised" => (SomeRaises /\ ~ p_closed /\ ~ p_joined
                              /\ Len(reported) < Len(args))
    /\ p_joined => p_closed
    /\ mp_pc = "returned" =>
          /\ p_closed /\ p_joined
          /\ Len(reported) = Len(args)
          /\ \A a \in 1..Len(args) : \E r \in 1..Len(reported) : reported[r] = a

\* C6: when the simulation of some element raises, the function ends with
\* that exception going to the caller, nothing more is reported from then on
\* and neither p.close() nor p.join() is executed; the function returns only
\* when no simulation raises, after p.close(), then p.join(), with all
\* len(args) results reported.
C6_NoPartialFailureHandling ==
    /\ [] C6_Outcome
    /\ [][mp_pc = "raised" => (mp_pc' = "raised" /\ reported' = reported)]_vars
    /\ [][p_joined' /\ ~ p_joined => p_closed]_vars
    /\ SomeRaises ~> (mp_pc = "raised")
    /\ <>(mp_pc \in {"returned", "raised"})

\* The exception has left the function after part of the results was
\* reported, while results of finished tasks are still waiting in the queue.
C6_Witness ==
    /\ mp_pc = "raised"
    /\ reported # <<>>
    /\ \E r \in 1..Len(items) : items[r][1]

\* floor(4c/5) and ceil(a/b), by their defining inequalities
FloorFourFifths(c) == CHOOSE q \in 0..c : 5 * q <= 4 * c /\ 4 * c < 5 * (q + 1)
CeilDiv(a, b) == CHOOSE q \in 0..a : q * b >= a /\ (q = 0 \/ (q - 1) * b < a)

\* C7: n_processes = max(floor(0.8 * cpu_count), 2) >= 2 and
\* chunksize = max(1, ceil(len(args) / n_processes)), whatever max_workers
\* is; so chunksize >= 1, chunksize * n_processes >= len(args) and args is
\* cut into at most n_processes tasks.
C7_ChunksizeCoversArgs ==
    mp_pc # "configure" =>
      /\ n_processes = Max(FloorFourFifths(cpu_count), 2)
      /\ n_processes >= 2
      /\ chunksize = Max(1, CeilDiv(Len(args), n_processes))
      /\ chunksize >= 1
      /\ chunksize * n_processes >= Len(args)
      /\ mp_pc # "pool" =>
            /\ Len(tasks) <= n_processes
            /\ \A t \in 1..Len(tasks) : Len(tasks[t]) <= chunksize

\* The tasks were cut for a number of simulations that is no multiple of
\* n_processes, in a call that passed max_workers.
C7_Witness ==
    /\ mp_pc = "for"
    /\ Len(args) % n_processes > 0
    /\ chunksize >= 2
    /\ Len(tasks) = n_processes
    /\ max_workers # None

\* =========================================================================
\* perform_parallel_simulation
\* =========================================================================
\* Objects live in a heap, a sequence of values indexed by reference.  The
\* caller's list args holds references; an element's value is the number of
\* times a simulation has modified it.

\* ProcessPoolExecutor(max_workers): None stands for min(32, cpu_count + 4),
\* as line 81 prints.
PoolSize(mw, cpus) == IF mw = None THEN Min(32, cpus + 4) ELSE mw

\* Pickled without the copy: the worker is handed the caller's object.
PickledShared(h, ref) == [heap |-> h, ref |-> ref]

\* An argument travels to a worker process pickled: the worker gets a new
\* object with the value the caller's object has at that moment.
Pickled(h, ref) == [heap |-> Append(h, h[ref]), ref |-> Len(h) + 1]

\* simulation(arg) modifies the object it is given.
Simulated(h, ref) == [h EXCEPT ![ref] = @ + 1]

PsInit ==
    /\ FcIdle
    /\ PpIdle
    /\ MpIdle
    /\ \E n \in 0..MaxArgs :
          /\ ps_args = [k \in 1..n |-> k]
          /\ heap = [k \in 1..n |-> 0]
          /\ ps_outcome \in Tuples({"ok", "raise"}, n)
          /\ future_state = [k \in 1..n |-> "none"]
          /\ worker_arg = [k \in 1..n |-> 0]
          /\ ps_executed = [k \in 1..n |-> 0]
    /\ heap0 = heap
    /\ ps_max_workers \in WorkerChoices
    /\ ps_cpu_count \in 1..MaxCpu
    /\ ps_pc = "start"
    /\ collected = 0
    /\ ps_exc = "none"

psInputs == <<ps_args, ps_outcome, ps_max_workers, ps_cpu_count, heap0>>

\* lines 80-83
PsPrint ==
    /\ ps_pc = "start"
    /\ ps_pc' = "map"
    /\ UNCHANGED <<psInputs, heap, future_state, worker_arg, ps_executed,
                   collected, ps_exc>>
    /\ UNCHANGED <<fcVars, ppVars, mpVars>>

\* lines 86-87: the executor is created and map submits one call per element
PsMap ==
    /\ ps_pc = "map"
    /\ future_state' = [k \in 1..Len(ps_args) |-> "pending"]
    /\ ps_pc' = "collect"
    /\ UNCHANGED <<psInputs, heap, worker_arg, ps_executed, collected, ps_exc>>
    /\ UNCHANGED <<fcVars, ppVars, mpVars>>

InState(st) == {k \in 1..Len(future_state) : future_state[k] = st}

\* The executor moves the oldest pending call to its call queue, which holds
\* one call more than there are workers; from then on the call cannot be
\* cancelled.  The argument is pickled on the way.
PsEnqueue(k) ==
    /\ future_state[k] = "pending"
    /\ \A l \in 1..(k - 1) : future_state[l] # "pending"
    /\ Cardinality(InState("queued")) < PoolSize(ps_max_workers, ps_cpu_count) + 1
    /\ LET sent == Pickled(heap, ps_args[k])
       IN /\ heap' = sent.heap
          /\ worker_arg' = [worker_arg EXCEPT ![k] = sent.ref]
    /\ future_state' = [future_state EXCEPT ![k] = "queued"]
    /\ UNCHANGED <<ps_pc, psInputs, ps_executed, collected, ps_exc>>
    /\ UNCHANGED <<fcVars, ppVars, mpVars>>

\* A free worker process takes the oldest call of the call queue.
PsWorkerGet(k) ==
    /\ future_state[k] = "queued"
    /\ \A l \in 1..(k - 1) : future_state[l] # "queued"
    /\ Cardinality(InState("running")) < PoolSize(ps_max_workers, ps_cpu_count)
    /\ future_state' = [future_state EXCEPT ![k] = "running"]
    /\ UNCHANGED <<ps_pc, psInputs, heap, worker_arg, ps_executed, collected, ps_exc>>
    /\ UNCHANGED <<fcVars, ppVars, mpVars>>

\* The worker runs simulation on its argument; the future gets the result or
\* the exception.
PsWorkerRun(k) ==
    /\ future_state[k] = "running"
    /\ heap' = Simulated(heap, worker_arg[k])
    /\ ps_executed' = [ps_executed EXCEPT ![k] = @ + 1]
    /\ future_state' = [future_state EXCEPT ![k] = "finished"]
    /\ UNCHANGED <<ps_pc, psInputs, worker_arg, collected, ps_exc>>
    /\ UNCHANGED <<fcVars, ppVars, mpVars>>

\* line 87: the comprehension takes the next result, in the order of args
PsCollect ==
    /\ ps_pc = "collect"
    /\ collected < Len(ps_args)
    /\ future_state[collected + 1] = "finished"
    /\ ps_outcome[collected + 1] = "ok"
    /\ collected' = collected + 1
    /\ UNCHANGED <<ps_pc, psInputs, heap, future_state, worker_arg, ps_executed, ps_exc>>
    /\ UNCHANGED <<fcVars, ppVars, mpVars>>

\* line 87: the next result is an exception; map cancels the calls that are
\* still pending and the exception leaves the comprehension
PsCollectRaise ==
    /\ ps_pc = "collect"
    /\ collected < Len(ps_args)
    /\ future_state[collected + 1] = "finished"
    /\ ps_outcome[collected + 1] = "raise"
    /\ future_state' = [k \in 1..Len(future_state) |->
                          IF future_state[k] = "pending" THEN "cancelled"
                          ELSE future_state[k]]
    /\ ps_exc' = "simulation"
    /\ ps_pc' = "exit"
    /\ UNCHANGED <<psInputs, heap, worker_arg, ps_executed, collected>>
    /\ UNCHANGED <<fcVars, ppVars, mpVars>>

\* line 88: wait is handed the list of results, not futures; it returns for
\* the empty list and raises (AttributeError) on the first result otherwise
PsWait ==
    /\ ps_pc = "collect"
    /\ collected = Len(ps_args)
    /\ ps_exc' = IF collected = 0 THEN "none" ELSE "AttributeError"
    /\ ps_pc' = "exit"
    /\ UNCHANGED <<psInputs, heap, future_state, worker_arg, ps_executed, collected>>
    /\ UNCHANGED <<fcVars, ppVars, mpVars>>

\* line 86: leaving the with block shuts the executor down and waits for the
\* calls that were not cancelled; then the function returns or the exception
\* goes on to the caller
PsExit ==
    /\ ps_pc = "exit"
    /\ \A k \in 1..Len(future_state) : future_state[k] \in {"finished", "cancelled"}
    /\ ps_pc' = IF ps_exc = "none" THEN "returned" ELSE "raised"
    /\ UNCHANGED <<psInputs, heap, future_state, worker_arg, ps_executed,
                   collected, ps_exc>>
    /\ UNCHANGED <<fcVars, ppVars, mpVars>>

PsNext ==
    \/ PsPrint \/ PsMap
    \/ \E k \in 1..Len(ps_args) : PsEnqueue(k) \/ PsWorkerGet(k) \/ PsWorkerRun(k)
    \/ PsCollect \/ PsCollectRaise \/ PsWait \/ PsExit

PsSpec == PsInit /\ [][PsNext]_vars

PsEnded == ps_pc \in {"returned", "raised"}

\* The caller's list and the objects it holds are as they were at the call.
CallerArgsUnchanged ==
    \A k \in 1..Len(ps_args) : ps_args[k] = k /\ heap[ps_args[k]] = heap0[ps_args[k]]

\* C5 as stated: after the call simulation has been executed exactly once
\* for each element of args and the caller's args are unchanged.
C5_ExactlyOnceAndUnchanged ==
    PsEnded => /\ \A k \in 1..Len(ps_args) : ps_executed[k] = 1
               /\ CallerArgsUnchanged

\* C5 amended: simulation is executed at most once for each element of
\* args, on a copy, so that the caller's args and their elements are never
\* changed; after a call in which no simulation raised it has been executed
\* exactly once for each element.
C5_AtMostOnceOnCopy ==
    /\ CallerArgsUnchanged
    /\ \A k \in 1..Len(ps_args) : ps_executed[k] <= 1
    /\ (PsEnded /\ \A k \in 1..Len(ps_args) : ps_outcome[k] = "ok")
          => \A k \in 1..Len(ps_args) : ps_executed[k] = 1
    /\ PsEnded => \A k \in 1..Len(ps_args) :
          ps_executed[k] = (IF future_state[k] = "cancelled" THEN 0 ELSE 1)

\* A call has ended in which every simulation ran and modified its copy.
C5_Witness ==
    /\ PsEnded
    /\ Len(ps_args) >= 2
    /\ \A k \in 1..Len(ps_args) :
          /\ ps_executed[k] = 1
          /\ worker_arg[k] # ps_args[k]
          /\ heap[worker_arg[k]] # heap[ps_args[k]]
====
